---- MODULE Spec2Model ----
(***************************************************************************)
(* Travel recap: the location tagging session (LocationTagger.tsx), the    *)
(* destination aggregation it runs on completion (generateDestinations)    *)
(* and the story playback engine (RecapStory.tsx).                         *)
(*                                                                         *)
(* Strings are sequences of one-character strings, so that toLowerCase,    *)
(* trim and template concatenation are computed and not assumed.           *)
(***************************************************************************)
EXTENDS Integers, Sequences, FiniteSets, TLC

VARIABLES
    taggedImages,      \* LocationTagger state: TravelImage[]
    currentIndex,      \* LocationTagger state: index of the image shown
    locationType,      \* manual form: 'city' | 'country'
    cityName,          \* manual form: typed city text
    selectedCountry,   \* manual form: chosen country
    showSuggestion,    \* manual form: suggestion card shown
    error,             \* validation message or null
    emitted,           \* what onComplete received (NotCalled before)
    clock,             \* the wall clock Date.now() reads
    lastOp,            \* history: the last tagger operation and its outcome
    destinations,      \* RecapStory props: data.destinations
    slides,            \* RecapStory: the memoised slide list
    currentSlideIndex, \* RecapStory state
    isAnimating,       \* RecapStory state: a transition is in flight
    progress,          \* RecapStory state, in exact units (see Full)
    pendingStep,       \* the armed setTimeout callback: 0 none, 1 next, -1 prev
    laterSteps,        \* setTimeout callbacks armed while that one is still armed
    settleTicks,       \* interval ticks fired since the timeout was armed
    exportsPending,    \* handleShare: html2canvas promises not settled yet
    hist               \* history: the last playback call (a tap's position with
                       \* it) and the advance/retreat pair

taggerVars == <<taggedImages, currentIndex, locationType, cityName,
                selectedCountry, showSuggestion, error, emitted, clock, lastOp>>
storyVars == <<destinations, slides, currentSlideIndex, isAnimating, progress, pendingStep,
               laterSteps, settleTicks, exportsPending, hist>>
vars == <<taggerVars, storyVars>>

----------------------------------------------------------------------------
(* Bounds of the model *)

MaxImages == 2      \* images in an aggregation input
MaxSession == 2     \* images in a tagging session
MaxTs == 1          \* capture timestamps range over 0..MaxTs
MaxClock == 2       \* Date.now() ranges over 1..MaxClock
MaxDests == 1       \* destinations of a story
MaxDestImages == 1  \* images of one story destination
TapWidth == 3       \* width of the story surface, in pixels
MaxStory == 3       \* destinations of a compiled deck
MaxExports == 1     \* image exports pending at one time

----------------------------------------------------------------------------
(* Strings *)

EmptyStr == <<>>
\* the value `undefined` where a string is expected
Undefined == <<"undefined">>

LowerChar(c) ==
    CASE c = "A" -> "a"
      [] c = "B" -> "b"
      [] c = "F" -> "f"
      [] c = "G" -> "g"
      [] OTHER -> c

\* String.prototype.toLowerCase
toLowerCase(s) == [i \in DOMAIN s |-> LowerChar(s[i])]

IsSpace(c) == c = " "

RECURSIVE TrimStart(_)
TrimStart(s) ==
    IF s # <<>> /\ IsSpace(Head(s)) THEN TrimStart(Tail(s)) ELSE s

RECURSIVE TrimEnd(_)
TrimEnd(s) ==
    IF s # <<>> /\ IsSpace(s[Len(s)]) THEN TrimEnd(SubSeq(s, 1, Len(s) - 1)) ELSE s

\* String.prototype.trim
trim(s) == TrimEnd(TrimStart(s))

----------------------------------------------------------------------------
(* Data *)

NoTs == -1                          \* timestamp: undefined
NoLocation == [type |-> "none"]     \* location: undefined
NoGeoTag == [present |-> FALSE, suggestedCity |-> Undefined, suggestedCountry |-> Undefined]
NotCalled == [called |-> FALSE, destinations |-> <<>>]  \* onComplete not called yet
\* onComplete(destinations) was called
Completed(dests) == [called |-> TRUE, destinations |-> dests]

HasLocation(img) == img.location.type # "none"

Location(type, name, country) == [type |-> type, name |-> name, country |-> country]

\* truthiness of an optional string ("" and undefined are falsy)
Truthy(s) == s # Undefined /\ s # EmptyStr

----------------------------------------------------------------------------
(* generateDestinations *)

\* a template literal over an undefined field throws a TypeError at .toLowerCase()
KeyThrows(loc) ==
    IF loc.type = "city"
    THEN loc.name = Undefined \/ loc.country = Undefined
    ELSE loc.country = Undefined

\* the key without its case folding
KeyCaseSensitive(loc) ==
    IF loc.type = "city"
    THEN <<"c", "i", "t", "y", ":">> \o loc.name \o <<":">> \o loc.country
    ELSE <<"c", "o", "u", "n", "t", "r", "y", ":">> \o loc.country

Key(loc) ==
    IF loc.type = "city"
    THEN <<"c", "i", "t", "y", ":">> \o toLowerCase(loc.name) \o <<":">> \o toLowerCase(loc.country)
    ELSE <<"c", "o", "u", "n", "t", "r", "y", ":">> \o toLowerCase(loc.country)

taggedWithLocation(imgs) == SelectSeq(imgs, HasLocation)

\* img.timestamp || Date.now()
TimestampOr(ts, now) == IF ts = NoTs \/ ts = 0 THEN now ELSE ts

MapHas(map, key) == \E i \in DOMAIN map : map[i].key = key
MapIndex(map, key) == CHOOSE i \in DOMAIN map : map[i].key = key

\* the forEach callback writing type, name and country on every image, not
\* only on the first of a key
MapPutOverwriting(map, img, now) ==
    LET key == Key(img.location)
        timestamp == TimestampOr(img.timestamp, now)
    IN  IF ~MapHas(map, key)
        THEN Append(map, [key |-> key,
                          type |-> img.location.type,
                          name |-> img.location.name,
                          country |-> img.location.country,
                          images |-> <<img.preview>>,
                          timestamps |-> <<timestamp>>,
                          earliestTimestamp |-> timestamp])
        ELSE LET i == MapIndex(map, key)
                 existing == map[i]
             IN  [map EXCEPT ![i] =
                    [existing EXCEPT
                        !.type = img.location.type,
                        !.name = img.location.name,
                        !.country = img.location.country,
                        !.images = Append(existing.images, img.preview),
                        !.timestamps = Append(existing.timestamps, timestamp),
                        !.earliestTimestamp =
                            IF timestamp < existing.earliestTimestamp
                            THEN timestamp ELSE existing.earliestTimestamp]]

\* the forEach callback with unshift in place of push
MapPutPrepending(map, img, now) ==
    LET key == Key(img.location)
        timestamp == TimestampOr(img.timestamp, now)
    IN  IF ~MapHas(map, key)
        THEN Append(map, [key |-> key,
                          type |-> img.location.type,
                          name |-> img.location.name,
                          country |-> img.location.country,
                          images |-> <<img.preview>>,
                          timestamps |-> <<timestamp>>,
                          earliestTimestamp |-> timestamp])
        ELSE LET i == MapIndex(map, key)
                 existing == map[i]
             IN  [map EXCEPT ![i] =
                    [existing EXCEPT
                        !.images = <<img.preview>> \o existing.images,
                        !.timestamps = <<timestamp>> \o existing.timestamps,
                        !.earliestTimestamp =
                            IF timestamp < existing.earliestTimestamp
                            THEN timestamp ELSE existing.earliestTimestamp]]

\* the forEach callback without its else branch: only the first image of a
\* key is kept
MapPutFirstOnly(map, img, now) ==
    LET key == Key(img.location)
        timestamp == TimestampOr(img.timestamp, now)
    IN  IF ~MapHas(map, key)
        THEN Append(map, [key |-> key,
                          type |-> img.location.type,
                          name |-> img.location.name,
                          country |-> img.location.country,
                          images |-> <<img.preview>>,
                          timestamps |-> <<timestamp>>,
                          earliestTimestamp |-> timestamp])
        ELSE map

\* the body of the forEach callback: one image folded into destinationMap
MapPut(map, img, now) ==
    LET key == Key(img.location)
        timestamp == TimestampOr(img.timestamp, now)
    IN  IF ~MapHas(map, key)
        THEN Append(map, [key |-> key,
                          type |-> img.location.type,
                          name |-> img.location.name,
                          country |-> img.location.country,
                          images |-> <<img.preview>>,
                          timestamps |-> <<timestamp>>,
                          earliestTimestamp |-> timestamp])
        ELSE LET i == MapIndex(map, key)
                 existing == map[i]
             IN  [map EXCEPT ![i] =
                    [existing EXCEPT
                        !.images = Append(existing.images, img.preview),
                        !.timestamps = Append(existing.timestamps, timestamp),
                        !.earliestTimestamp =
                            IF timestamp < existing.earliestTimestamp
                            THEN timestamp ELSE existing.earliestTimestamp]]

\* destinationMap after the first n images of the filtered list; nows[i] is
\* what Date.now() returns while image i is folded
RECURSIVE destinationMap(_, _, _)
destinationMap(imgs, nows, n) ==
    IF n = 0 THEN <<>>
    ELSE MapPut(destinationMap(imgs, nows, n - 1), imgs[n], nows[n])

\* Array.prototype.sort with (a, b) => a.earliestTimestamp - b.earliestTimestamp:
\* a stable sort, here by insertion
RECURSIVE InsertSorted(_, _)
InsertSorted(sorted, e) ==
    IF sorted = <<>> THEN <<e>>
    ELSE IF e.earliestTimestamp - sorted[Len(sorted)].earliestTimestamp < 0
         THEN Append(InsertSorted(SubSeq(sorted, 1, Len(sorted) - 1), e), sorted[Len(sorted)])
         ELSE Append(sorted, e)

RECURSIVE SortEntries(_, _)
SortEntries(map, n) ==
    IF n = 0 THEN <<>> ELSE InsertSorted(SortEntries(map, n - 1), map[n])

\* the .map() with visitOrder: index in place of index + 1 (the code counts
\* index from 0)
ToDestinationsZeroBased(sorted, uuid) ==
    [index \in DOMAIN sorted |->
        [id |-> <<uuid, index>>,
         type |-> sorted[index].type,
         name |-> sorted[index].name,
         country |-> sorted[index].country,
         images |-> sorted[index].images,
         visitOrder |-> index - 1,
         earliestTimestamp |-> sorted[index].earliestTimestamp]]

\* the .map() that builds the TravelDestination records; uuid stands for the
\* values crypto.randomUUID() returns during this call (DOMAIN sorted counts
\* from 1: index here is the code's index + 1)
ToDestinations(sorted, uuid) ==
    [index \in DOMAIN sorted |->
        [id |-> <<uuid, index>>,
         type |-> sorted[index].type,
         name |-> sorted[index].name,
         country |-> sorted[index].country,
         images |-> sorted[index].images,
         visitOrder |-> index,
         earliestTimestamp |-> sorted[index].earliestTimestamp]]

GenerateThrows(imgs) ==
    \E i \in DOMAIN imgs : HasLocation(imgs[i]) /\ KeyThrows(imgs[i].location)

\* the argument of onComplete (when no key throws)
generateDestinations(imgs, nows, uuid) ==
    LET withLoc == taggedWithLocation(imgs)
    IN  IF Len(withLoc) = 0 THEN <<>>
        ELSE LET map == destinationMap(withLoc, nows, Len(withLoc))
             IN  ToDestinations(SortEntries(map, Len(map)), uuid)

----------------------------------------------------------------------------
(* Inputs of the tagging session *)

GeoTag(city, country) ==
    [present |-> TRUE, suggestedCity |-> city, suggestedCountry |-> country]

\* what extractGeoTag can hand over: no tag, coordinates only, or a geocoder
\* answer with a city, a country or both (never an empty string)
GeoTags ==
    { NoGeoTag,
      GeoTag(Undefined, Undefined),
      GeoTag(<<"P">>, <<"F">>),
      GeoTag(<<"p", " ">>, <<"F">>),
      GeoTag(Undefined, <<"F">>),
      GeoTag(Undefined, <<"f">>),
      GeoTag(<<"P">>, Undefined) }

\* texts the user may type into the city field
TypedCities == { EmptyStr, <<" ">>, <<" ", "p">> }

\* the dropdown's entries
COUNTRIES == { <<"F">> }

Timestamps == {NoTs} \cup (0 .. MaxTs)

UUIDs == {"u1", "u2"}

Image(i, geoTag, ts) ==
    [id |-> i, preview |-> i, location |-> NoLocation, geoTag |-> geoTag,
     timestamp |-> ts, order |-> i]

\* what Date.now() returns while each image of the filtered list is folded:
\* non-decreasing from the current clock on; an image with a truthy timestamp
\* does not read the clock (|| short-circuits), so its entry repeats the
\* reading before it
NowSeqs(imgs) ==
    { s \in [DOMAIN imgs -> clock .. MaxClock] :
        \A i \in DOMAIN imgs :
            LET before == IF i = 1 THEN clock ELSE s[i - 1]
            IN  IF TimestampOr(imgs[i].timestamp, NoTs) = NoTs
                THEN before <= s[i]
                ELSE s[i] = before }

----------------------------------------------------------------------------
(* LocationTagger *)

Null == "null"

\* taggedImages[currentIndex], with currentIndex counted from 0 as in the code
currentImage == taggedImages[currentIndex + 1]

hasSuggestion ==
    /\ currentImage.geoTag.present
    /\ \/ Truthy(currentImage.geoTag.suggestedCity)
       \/ Truthy(currentImage.geoTag.suggestedCountry)

SessionOpen == emitted = NotCalled /\ currentIndex < Len(taggedImages)

\* the location saveLocation writes
ManualLocation(type, city, country) ==
    Location(type, IF type = "city" THEN trim(city) ELSE country, country)

\* the location confirmSuggestion writes
SuggestedLocation(geoTag) ==
    LET hasCity == Truthy(geoTag.suggestedCity)
    IN  Location(IF hasCity THEN "city" ELSE "country",
                 IF hasCity THEN geoTag.suggestedCity ELSE geoTag.suggestedCountry,
                 geoTag.suggestedCountry)

\* the validation with the city text tested untrimmed
saveLocationErrorUntrimmed(type, city, country) ==
    IF type = "country" /\ ~Truthy(country) THEN "Please select a country"
    ELSE IF type = "city" /\ (~Truthy(city) \/ ~Truthy(country))
         THEN "Please enter city name and select a country"
         ELSE Null

\* saveLocation's two validation branches: the message set, or Null when valid
saveLocationError(type, city, country) ==
    IF type = "country" /\ ~Truthy(country) THEN "Please select a country"
    ELSE IF type = "city" /\ (~Truthy(trim(city)) \/ ~Truthy(country))
         THEN "Please enter city name and select a country"
         ELSE Null

resetForm ==
    /\ cityName' = EmptyStr
    /\ selectedCountry' = EmptyStr
    /\ locationType' = "city"
    /\ showSuggestion' = TRUE

\* the taggedImages generateDestinations reads when goToNext calls it: the
\* state of the render the click handler was created in, not updatedImages
ClosureImages(updatedImages) == taggedImages

\* a result as history keeps it: without the ids drawn for it
StripId(d) ==
    [type |-> d.type, name |-> d.name, country |-> d.country, images |-> d.images,
     visitOrder |-> d.visitOrder, earliestTimestamp |-> d.earliestTimestamp]

StripIds(ds) == [k \in DOMAIN ds |-> StripId(ds[k])]

Previous(e) == [called |-> e.called, destinations |-> StripIds(e.destinations)]

\* generateDestinations as called from a handler: onComplete(destinations),
\* unless computing a key throws
CallGenerate(imgs, op) ==
    IF GenerateThrows(imgs)
    THEN /\ emitted' = emitted
         /\ clock' = clock
         /\ lastOp' = [op |-> op, outcome |-> "threw", before |-> Previous(emitted)]
    ELSE \E uuid \in UUIDs :
           \E nows \in NowSeqs(taggedWithLocation(imgs)) :
             /\ emitted' = Completed(generateDestinations(imgs, nows, uuid))
             /\ clock' = IF Len(nows) = 0 THEN clock ELSE nows[Len(nows)]
             /\ lastOp' = [op |-> op, outcome |-> "completed", before |-> Previous(emitted)]

\* setTaggedImages(updatedImages); goToNext()
CommitAndGoToNext(updatedImages, op) ==
    /\ taggedImages' = updatedImages
    /\ error' = Null
    /\ resetForm
    /\ IF currentIndex < Len(taggedImages) - 1
       THEN /\ currentIndex' = currentIndex + 1
            /\ lastOp' = [op |-> op, outcome |-> "next", before |-> NotCalled]
            /\ UNCHANGED <<emitted, clock>>
       ELSE /\ currentIndex' = currentIndex
            /\ CallGenerate(ClosureImages(updatedImages), op)

WithLocation(imgs, i, loc) == [imgs EXCEPT ![i + 1].location = loc]

\* the body of saveLocation
saveLocation ==
    LET msg == saveLocationError(locationType, cityName, selectedCountry)
    IN  IF msg # Null
        THEN /\ error' = msg
             /\ lastOp' = [op |-> "saveLocation", outcome |-> "rejected", before |-> NotCalled]
             /\ UNCHANGED <<taggedImages, currentIndex, locationType, cityName,
                            selectedCountry, showSuggestion, emitted, clock>>
        ELSE CommitAndGoToNext(
                 WithLocation(taggedImages, currentIndex,
                              ManualLocation(locationType, cityName, selectedCountry)),
                 "saveLocation")

\* the body of confirmSuggestion
confirmSuggestion ==
    IF ~currentImage.geoTag.present
    THEN /\ lastOp' = [op |-> "confirmSuggestion", outcome |-> "ignored", before |-> NotCalled]
         /\ UNCHANGED <<taggedImages, currentIndex, locationType, cityName,
                        selectedCountry, showSuggestion, error, emitted, clock>>
    ELSE CommitAndGoToNext(
             WithLocation(taggedImages, currentIndex,
                          SuggestedLocation(currentImage.geoTag)),
             "confirmSuggestion")

\* the Next button's disabled attribute
NextDisabled ==
    \/ ~hasSuggestion /\ ~showSuggestion /\ locationType = "country"
           /\ ~Truthy(selectedCountry)
    \/ ~hasSuggestion /\ ~showSuggestion /\ locationType = "city"
           /\ (~Truthy(trim(cityName)) \/ ~Truthy(selectedCountry))

\* Confirm, or Next while the suggestion card is shown
ClickConfirm ==
    /\ SessionOpen
    /\ hasSuggestion /\ showSuggestion
    /\ confirmSuggestion
    /\ UNCHANGED storyVars

\* Next while the manual form is shown
ClickNext ==
    /\ SessionOpen
    /\ ~(hasSuggestion /\ showSuggestion)
    /\ ~NextDisabled
    /\ saveLocation
    /\ UNCHANGED storyVars

\* Change Location
ClickChangeLocation ==
    /\ SessionOpen
    /\ hasSuggestion /\ showSuggestion
    /\ showSuggestion' = FALSE
    /\ selectedCountry' =
         IF Truthy(currentImage.geoTag.suggestedCountry)
         THEN currentImage.geoTag.suggestedCountry ELSE selectedCountry
    /\ lastOp' = [op |-> "changeLocation", outcome |-> "form", before |-> NotCalled]
    /\ UNCHANGED <<taggedImages, currentIndex, locationType, cityName, error,
                   emitted, clock>>
    /\ UNCHANGED storyVars

FormShown == SessionOpen /\ ~(hasSuggestion /\ showSuggestion)

SetLocationType ==
    /\ FormShown
    /\ \E t \in {"city", "country"} : locationType' = t
    /\ lastOp' = [op |-> "setLocationType", outcome |-> "form", before |-> NotCalled]
    /\ UNCHANGED <<taggedImages, currentIndex, cityName, selectedCountry,
                   showSuggestion, error, emitted, clock>>
    /\ UNCHANGED storyVars

TypeCity ==
    /\ FormShown
    /\ locationType = "city"
    /\ \E text \in TypedCities : cityName' = text
    /\ lastOp' = [op |-> "setCityName", outcome |-> "form", before |-> NotCalled]
    /\ UNCHANGED <<taggedImages, currentIndex, locationType, selectedCountry,
                   showSuggestion, error, emitted, clock>>
    /\ UNCHANGED storyVars

SelectCountry ==
    /\ FormShown
    /\ \E country \in COUNTRIES : selectedCountry' = country
    /\ lastOp' = [op |-> "setSelectedCountry", outcome |-> "form", before |-> NotCalled]
    /\ UNCHANGED <<taggedImages, currentIndex, locationType, cityName,
                   showSuggestion, error, emitted, clock>>
    /\ UNCHANGED storyVars

\* playback state while no story is mounted
NoStory ==
    /\ destinations = <<>>
    /\ slides = <<>>
    /\ currentSlideIndex = 0
    /\ isAnimating = FALSE
    /\ progress = 0
    /\ pendingStep = 0
    /\ laterSteps = <<>>
    /\ settleTicks = 0
    /\ exportsPending = 0
    /\ hist = [call |-> "none", valid |-> TRUE, phase |-> "none", from |-> 0, x |-> 0]

\* the uploader builds its images without a timestamp field
SessionTimestamps == {NoTs}

\* a session input: uploaded images, none of them tagged yet
SessionInput(f) == [i \in DOMAIN f |-> Image(i, f[i][1], f[i][2])]

\* useState initial values of LocationTagger
InitTag ==
    /\ \E n \in 1 .. MaxSession :
         \E f \in [1 .. n -> GeoTags \X SessionTimestamps] :
           taggedImages = SessionInput(f)
    /\ currentIndex = 0
    /\ locationType = "city"
    /\ cityName = EmptyStr
    /\ selectedCountry = EmptyStr
    /\ showSuggestion = TRUE
    /\ error = Null
    /\ emitted = NotCalled
    /\ clock = 1
    /\ lastOp = [op |-> "mount", outcome |-> "form", before |-> NotCalled]
    /\ NoStory

NextTag ==
    \/ ClickConfirm
    \/ ClickNext
    \/ ClickChangeLocation
    \/ SetLocationType
    \/ TypeCity
    \/ SelectCountry

SpecTag == InitTag /\ [][NextTag]_vars

----------------------------------------------------------------------------
(* The session with confirmSuggestion called as an operation of its own *)

\* confirmSuggestion invoked whatever the card shows (the buttons call it
\* only while hasSuggestion && showSuggestion)
CallConfirmSuggestion ==
    /\ SessionOpen
    /\ confirmSuggestion
    /\ UNCHANGED storyVars

NextCall ==
    \/ NextTag
    \/ CallConfirmSuggestion

SpecCall == InitTag /\ [][NextCall]_vars

----------------------------------------------------------------------------
(* generateDestinations as a function of its input *)

Confirmable(geoTag) ==
    geoTag.present /\ (Truthy(geoTag.suggestedCity) \/ Truthy(geoTag.suggestedCountry))

\* the locations a session commits: a confirmed suggestion, or a valid form
\* with a country of the dropdown
CommittedLocations ==
    { SuggestedLocation(g) : g \in { t \in GeoTags : Confirmable(t) } }
    \cup
    { ManualLocation(f[1], f[2], f[3]) :
        f \in { x \in {"city", "country"} \X TypedCities \X COUNTRIES :
                  saveLocationError(x[1], x[2], x[3]) = Null } }

\* an aggregation input: images that carry a committed location or none
AggInput(f) ==
    [i \in DOMAIN f |-> [Image(i, NoGeoTag, f[i][2]) EXCEPT !.location = f[i][1]]]

InitAgg ==
    /\ \E n \in 1 .. MaxImages :
         \E f \in [1 .. n -> (CommittedLocations \cup {NoLocation}) \X Timestamps] :
           taggedImages = AggInput(f)
    /\ currentIndex = Len(taggedImages)
    /\ locationType = "city"
    /\ cityName = EmptyStr
    /\ selectedCountry = EmptyStr
    /\ showSuggestion = TRUE
    /\ error = Null
    /\ emitted = NotCalled
    /\ clock = 1
    /\ lastOp = [op |-> "mount", outcome |-> "form", before |-> NotCalled]
    /\ NoStory

\* generateDestinations applied to the list as it stands
Generate ==
    /\ CallGenerate(taggedImages, "generateDestinations")
    /\ UNCHANGED <<taggedImages, currentIndex, locationType, cityName,
                   selectedCountry, showSuggestion, error>>
    /\ UNCHANGED storyVars

NextAgg == Generate

SpecAgg == InitAgg /\ [][NextAgg]_vars

----------------------------------------------------------------------------
(* RecapStory: quarters and slides *)

\* Date.prototype.getMonth() + 1 for a timestamp counted in days since the
\* epoch (one model time unit is a day, so that a year fits the integers
\* of TLC; 0 is the epoch itself)
MonthOf(ts) ==
    LET z == ts + 719468
        era == z \div 146097
        doe == z - era * 146097
        yoe == (doe - doe \div 1460 + doe \div 36524 - doe \div 146096) \div 365
        doy == doe - (365 * yoe + yoe \div 4 - yoe \div 100)
        mp == (5 * doy + 2) \div 153
    IN  IF mp < 10 THEN mp + 3 ELSE mp - 9

Quarters == <<"Q1", "Q2", "Q3", "Q4">>

\* the forEach body without its else branch: no bucket for a falsy timestamp
QuarterOfWithoutFallback(dest) ==
    LET timestamp == dest.earliestTimestamp
    IN  IF timestamp # NoTs /\ timestamp # 0
        THEN LET month == MonthOf(timestamp)
             IN  IF month <= 3 THEN "Q1"
                 ELSE IF month <= 6 THEN "Q2"
                 ELSE IF month <= 9 THEN "Q3"
                 ELSE "Q4"
        ELSE "none"

\* the branch of the forEach in quarterlyDestinations that dest takes
QuarterOf(dest) ==
    LET timestamp == dest.earliestTimestamp
    IN  IF timestamp # NoTs /\ timestamp # 0
        THEN LET month == MonthOf(timestamp)
             IN  IF month <= 3 THEN "Q1"
                 ELSE IF month <= 6 THEN "Q2"
                 ELSE IF month <= 9 THEN "Q3"
                 ELSE "Q4"
        ELSE "Q4"

\* the buckets when the month chain lacks its `else`s before the Q4 push
quarterlyDestinationsFallThrough(dests) ==
    [q \in {"Q1", "Q2", "Q3", "Q4"} |->
        SelectSeq(dests, LAMBDA dest : QuarterOf(dest) = q \/ q = "Q4")]

quarterlyDestinations(dests) ==
    [q \in {"Q1", "Q2", "Q3", "Q4"} |->
        SelectSeq(dests, LAMBDA dest : QuarterOf(dest) = q)]

Slide(type) == [type |-> type]

\* the slides of one quarter with the destination slides pushed in reverse
QuarterSlidesReversed(quarter, dests) ==
    IF Len(dests) = 0 THEN <<>>
    ELSE <<[type |-> "quarter-intro", quarter |-> quarter, count |-> Len(dests),
            destinations |-> dests]>>
         \o [i \in DOMAIN dests |->
                [type |-> "destination", destination |-> dests[Len(dests) + 1 - i],
                 quarter |-> quarter]]

\* the slides one quarter pushes: nothing for an empty bucket
QuarterSlides(quarter, dests) ==
    IF Len(dests) = 0 THEN <<>>
    ELSE <<[type |-> "quarter-intro", quarter |-> quarter, count |-> Len(dests),
            destinations |-> dests]>>
         \o [i \in DOMAIN dests |->
                [type |-> "destination", destination |-> dests[i], quarter |-> quarter]]

\* the slides memo without its early return for an empty list
compileSlidesWithoutEmptyCase(dests) ==
    LET quarters == quarterlyDestinations(dests)
    IN  <<Slide("intro")>>
        \o QuarterSlides("Q1", quarters["Q1"])
        \o QuarterSlides("Q2", quarters["Q2"])
        \o QuarterSlides("Q3", quarters["Q3"])
        \o QuarterSlides("Q4", quarters["Q4"])
        \o <<Slide("summary-intro"), Slide("top-spot"), Slide("busiest-quarter"),
             Slide("quarter-breakdown"), Slide("stamp-collection")>>

\* the slides memo
compileSlides(dests) ==
    IF Len(dests) = 0
    THEN <<Slide("intro"), Slide("summary-intro"), Slide("stamp-collection")>>
    ELSE LET quarters == quarterlyDestinations(dests)
         IN  <<Slide("intro")>>
             \o QuarterSlides("Q1", quarters["Q1"])
             \o QuarterSlides("Q2", quarters["Q2"])
             \o QuarterSlides("Q3", quarters["Q3"])
             \o QuarterSlides("Q4", quarters["Q4"])
             \o <<Slide("summary-intro"), Slide("top-spot"), Slide("busiest-quarter"),
                  Slide("quarter-breakdown"), Slide("stamp-collection")>>

----------------------------------------------------------------------------
(* RecapStory: playback *)

INTERVAL_MS == 50
SETTLE_MS == 300
DEST_BASE_MS == 8000
DEST_PER_IMAGE_MS == 4000
QUARTER_INTRO_MS == 14000
INTRO_MS == 10000
STAMP_MS == 16000
DEFAULT_MS == 10000
FULL == 100

\* slides[currentSlideIndex], with the index counted from 0 as in the code
currentSlide == slides[currentSlideIndex + 1]

getSlideDuration(slide) ==
    IF slide.type = "destination"
    THEN DEST_BASE_MS + (Len(slide.destination.images) - 1) * DEST_PER_IMAGE_MS
    ELSE IF slide.type = "quarter-intro" THEN QUARTER_INTRO_MS
    ELSE IF slide.type = "intro" THEN INTRO_MS
    ELSE IF slide.type = "stamp-collection" THEN STAMP_MS
    ELSE DEFAULT_MS

RECURSIVE Gcd(_, _)
Gcd(a, b) == IF b = 0 THEN a ELSE Gcd(b, a % b)

Lcm(a, b) == (a \div Gcd(a, b)) * b

\* the least common multiple of the tick interval and the durations of the
\* first n slides
RECURSIVE DurationLcm(_, _)
DurationLcm(deck, n) ==
    IF n = 0 THEN INTERVAL_MS
    ELSE Lcm(DurationLcm(deck, n - 1), getSlideDuration(deck[n]))

\* capture day of the played story's destinations: 15 Feb 2025 (playback
\* reads a slide's type and image count only)
PlayTimestamps == {20134}

StoryDestination(i, imageCount, ts) ==
    [id |-> <<"u1", i>>, type |-> "city", name |-> <<"p">>, country |-> <<"F">>,
     images |-> [j \in 1 .. imageCount |-> j], visitOrder |-> i,
     earliestTimestamp |-> ts]

StoryInput(f) == [i \in DOMAIN f |-> StoryDestination(i, f[i][1], f[i][2])]

\* the decks of the stories played
PlayDecks ==
    {compileSlides(StoryInput(f)) :
        f \in UNION {[1 .. n -> (1 .. MaxDestImages) \X PlayTimestamps] : n \in 0 .. MaxDests}}

\* DurationLcm of each deck played, computed once
DeckUnits == [deck \in PlayDecks |-> DurationLcm(deck, Len(deck))]

\* progress is kept exactly: one unit is (INTERVAL_MS * 100 / DeckUnits[deck])
\* percent, which makes every slide's increment a whole number of units.
\* (interval / duration) * 100:
Increment(deck, slide) == DeckUnits[deck] \div getSlideDuration(slide)

\* the progress value 100
Full(deck) == (DeckUnits[deck] \div INTERVAL_MS) * (FULL \div 100)

\* the interval ticks that fit into the settle delay
SettleTicks == SETTLE_MS \div INTERVAL_MS

\* the timer effect without its stamp-collection guard
TimerArmedOnEverySlide == TRUE

\* the timer effect arms an interval unless it returns early
TimerArmed == currentSlide.type # "stamp-collection"

\* goToNext's guard without its isAnimating test
goToNextIgnoresFlight == currentSlideIndex < Len(slides) - 1

\* goToNext's guard
goToNextAccepts == currentSlideIndex < Len(slides) - 1 /\ ~isAnimating

\* goToPrev's guard without its isAnimating test
goToPrevIgnoresFlight == currentSlideIndex > 0

\* goToPrev's guard
goToPrevAccepts == currentSlideIndex > 0 /\ ~isAnimating

\* the state updates of an accepted goToNext (step 1) or goToPrev (step -1)
BeginTransition(step) ==
    /\ isAnimating' = TRUE
    /\ progress' = 0
    /\ IF pendingStep = 0
       THEN /\ pendingStep' = step
            /\ laterSteps' = laterSteps
            /\ settleTicks' = 0
       ELSE /\ pendingStep' = pendingStep
            /\ laterSteps' = Append(laterSteps, step)
            /\ settleTicks' = settleTicks
    /\ currentSlideIndex' = currentSlideIndex

\* the setTimeout callback stepping the wrong way, without Math.min / Math.max
SettledIndexReversed(step, prev) == prev - step

\* the index the armed setTimeout callback sets
SettledIndex(step, prev) ==
    IF step = 1
    THEN (IF prev + 1 < Len(slides) - 1 THEN prev + 1 ELSE Len(slides) - 1)
    ELSE (IF prev - 1 > 0 THEN prev - 1 ELSE 0)

\* the setProgress updater holding the bar just short of 100
TickProgressNeverFull(prev, increment, full) ==
    IF prev + increment >= full THEN prev ELSE prev + increment

\* the setProgress updater of the interval callback
TickProgress(prev, increment, full) ==
    LET newProgress == prev + increment
    IN  IF newProgress >= full THEN full ELSE newProgress

\* what the specification calls a valid advance / retreat
AdvanceValid == currentSlideIndex < Len(slides) - 1 /\ pendingStep = 0
RetreatValid == currentSlideIndex > 0 /\ pendingStep = 0

\* the advance/retreat pair followed by hist.phase
PhaseAfterAdvance(accepted) == IF accepted THEN "adv" ELSE hist.phase
PhaseAfterRetreat(accepted) ==
    IF ~accepted THEN hist.phase
    ELSE IF hist.phase = "advSettled" THEN "ret" ELSE "none"
PhaseAfterSettle ==
    IF hist.phase = "adv" THEN "advSettled"
    ELSE IF hist.phase = "ret" THEN "retSettled"
    ELSE "none"
PhaseAfterTick == IF hist.phase = "retSettled" THEN "none" ELSE hist.phase

\* one firing of progressTimer, with the advance-on-100 effect that follows
\* the render it causes. While a setTimeout callback is armed the interval of
\* the slide still shown keeps firing (the timer effect is re-run only when
\* the index changes): at most SettleTicks times, and possibly fewer when the
\* host delays its timers.
Tick ==
    /\ slides # <<>>
    /\ TimerArmed
    /\ pendingStep # 0 => settleTicks < SettleTicks
    /\ LET full == Full(slides)
           newProgress == TickProgress(progress, Increment(slides, currentSlide), full)
       IN  IF newProgress >= full /\ goToNextAccepts
           THEN /\ BeginTransition(1)
                /\ hist' = [call |-> "tick100", valid |-> TRUE, phase |-> "adv",
                            from |-> currentSlideIndex, x |-> 0]
           ELSE /\ progress' = newProgress
                /\ settleTicks' = IF pendingStep # 0 THEN settleTicks + 1 ELSE settleTicks
                /\ hist' = [hist EXCEPT !.call = "tick", !.valid = TRUE,
                                        !.phase = PhaseAfterTick, !.x = 0]
                /\ UNCHANGED <<currentSlideIndex, isAnimating, pendingStep, laterSteps>>
    /\ UNCHANGED <<destinations, slides, exportsPending>>
    /\ UNCHANGED taggerVars

\* the setTimeout callback of goToNext / goToPrev, with the effects that
\* follow the render it causes (the interval is re-armed for the new slide;
\* the advance-on-100 effect runs again)
Settle ==
    /\ pendingStep # 0
    /\ LET index == SettledIndex(pendingStep, currentSlideIndex)
       IN  IF /\ progress >= Full(slides)
              /\ slides[index + 1].type # "stamp-collection"
              /\ index < Len(slides) - 1
           THEN /\ currentSlideIndex' = index
                /\ isAnimating' = TRUE
                /\ progress' = 0
                /\ pendingStep' = IF laterSteps = <<>> THEN 1 ELSE Head(laterSteps)
                /\ laterSteps' = IF laterSteps = <<>> THEN <<>>
                                 ELSE Append(Tail(laterSteps), 1)
                /\ settleTicks' = 0
           ELSE /\ currentSlideIndex' = index
                /\ isAnimating' = FALSE
                /\ pendingStep' = IF laterSteps = <<>> THEN 0 ELSE Head(laterSteps)
                /\ laterSteps' = IF laterSteps = <<>> THEN <<>> ELSE Tail(laterSteps)
                /\ settleTicks' = 0
                /\ progress' = progress
    /\ hist' = [hist EXCEPT !.call = "settle", !.valid = TRUE, !.phase = PhaseAfterSettle,
                            !.x = 0]
    /\ UNCHANGED <<destinations, slides, exportsPending>>
    /\ UNCHANGED taggerVars

\* where taps land: the last pixel left of a third of the width, and the
\* first pixel at or beyond it
TapXs == {(TapWidth - 1) \div 3, (TapWidth + 2) \div 3}

\* handleTap's comparison with <= in place of <
TapIsLeftInclusive(x, width) == 3 * x <= width

\* x < width / 3
TapIsLeft(x, width) == 3 * x < width

\* handleTap at x pixels from the left edge of a surface TapWidth wide
HandleTap ==
    /\ slides # <<>>
    /\ \E x \in TapXs :
         IF TapIsLeft(x, TapWidth)
         THEN /\ IF goToPrevAccepts
                 THEN BeginTransition(-1)
                 ELSE UNCHANGED <<currentSlideIndex, isAnimating, progress,
                                  pendingStep, laterSteps, settleTicks>>
              /\ hist' = [call |-> "retreat", valid |-> RetreatValid,
                          phase |-> PhaseAfterRetreat(goToPrevAccepts),
                          from |-> hist.from, x |-> x]
         ELSE /\ IF goToNextAccepts
                 THEN BeginTransition(1)
                 ELSE UNCHANGED <<currentSlideIndex, isAnimating, progress,
                                  pendingStep, laterSteps, settleTicks>>
              /\ hist' = [call |-> "advance", valid |-> AdvanceValid,
                          phase |-> PhaseAfterAdvance(goToNextAccepts),
                          from |-> IF goToNextAccepts THEN currentSlideIndex
                                   ELSE hist.from,
                          x |-> x]
    /\ UNCHANGED <<destinations, slides, exportsPending>>
    /\ UNCHANGED taggerVars

\* useState initial values of RecapStory, for a story of up to MaxDests
\* destinations
InitPlay ==
    /\ \E n \in 0 .. MaxDests :
         \E f \in [1 .. n -> (1 .. MaxDestImages) \X PlayTimestamps] :
           /\ destinations = StoryInput(f)
           /\ slides = compileSlides(StoryInput(f))
    /\ currentSlideIndex = 0
    /\ isAnimating = FALSE
    /\ progress = 0
    /\ pendingStep = 0
    /\ laterSteps = <<>>
    /\ settleTicks = 0
    /\ exportsPending = 0
    /\ hist = [call |-> "none", valid |-> TRUE, phase |-> "none", from |-> 0, x |-> 0]
    /\ taggedImages = <<>>
    /\ currentIndex = 0
    /\ locationType = "city"
    /\ cityName = EmptyStr
    /\ selectedCountry = EmptyStr
    /\ showSuggestion = TRUE
    /\ error = Null
    /\ emitted = NotCalled
    /\ clock = 1
    /\ lastOp = [op |-> "mount", outcome |-> "form", before |-> NotCalled]

NextPlay ==
    \/ Tick
    \/ Settle
    \/ HandleTap

SpecPlay == InitPlay /\ [][NextPlay]_vars

\* the header button's click without its stopPropagation: the click goes on
\* to the story surface, right of its first third
ShareClickBubbles ==
    IF goToNextAccepts
    THEN BeginTransition(1)
    ELSE UNCHANGED <<currentSlideIndex, isAnimating, progress, pendingStep, laterSteps,
                     settleTicks>>

\* what a click on a share button does to playback: it is stopped before it
\* reaches handleTap, and handleShare calls no state setter
ShareClickPlayback ==
    UNCHANGED <<currentSlideIndex, isAnimating, progress, pendingStep, laterSteps,
                settleTicks>>

\* a share button is clicked: handleShare runs up to its await
ClickShare ==
    /\ slides # <<>>
    /\ exportsPending < MaxExports
    /\ exportsPending' = exportsPending + 1
    /\ ShareClickPlayback
    /\ UNCHANGED <<destinations, slides, hist>>
    /\ UNCHANGED taggerVars

\* html2canvas resolves: handleShare clicks its download link (the browser
\* saves the image; no state of the component is written)
ExportSucceeds ==
    /\ exportsPending > 0
    /\ exportsPending' = exportsPending - 1
    /\ UNCHANGED <<destinations, slides, currentSlideIndex, isAnimating, progress,
                   pendingStep, laterSteps, settleTicks, hist>>
    /\ UNCHANGED taggerVars

\* html2canvas rejects: handleShare logs the error to the console
ExportFails ==
    /\ exportsPending > 0
    /\ exportsPending' = exportsPending - 1
    /\ UNCHANGED <<destinations, slides, currentSlideIndex, isAnimating, progress,
                   pendingStep, laterSteps, settleTicks, hist>>
    /\ UNCHANGED taggerVars

\* playback with image exports going on beside it
NextShare ==
    \/ Tick
    \/ Settle
    \/ HandleTap
    \/ ClickShare
    \/ ExportSucceeds
    \/ ExportFails

SpecShare == InitPlay /\ [][NextShare]_vars

\* playback left to the timer alone
NextAuto ==
    \/ Tick
    \/ Settle

SpecAuto == InitPlay /\ [][NextAuto]_vars

\* the host runs its timers: an armed interval keeps firing and an armed
\* timeout fires
SpecAutoFair == SpecAuto /\ WF_vars(Tick) /\ WF_vars(Settle)

----------------------------------------------------------------------------
(* The slides memo as a function of data.destinations *)

\* earliestTimestamp values of the compiled stories: absent, the epoch, and
\* in 2025 the days 15 Feb, 31 Mar, 1 Apr, 15 May, 15 Aug and 15 Nov
CompileTimestamps == {NoTs, 0, 20134, 20178, 20179, 20223, 20315, 20407}

CompileInput(f) == [i \in DOMAIN f |-> StoryDestination(i, 1, f[i])]

\* RecapStory before its first render: destinations handed over, no slides yet
InitCompile ==
    /\ \E n \in 0 .. MaxStory :
         \E f \in [1 .. n -> CompileTimestamps] :
           destinations = CompileInput(f)
    /\ slides = <<>>
    /\ currentSlideIndex = 0
    /\ isAnimating = FALSE
    /\ progress = 0
    /\ pendingStep = 0
    /\ laterSteps = <<>>
    /\ settleTicks = 0
    /\ exportsPending = 0
    /\ hist = [call |-> "none", valid |-> TRUE, phase |-> "none", from |-> 0, x |-> 0]
    /\ taggedImages = <<>>
    /\ currentIndex = 0
    /\ locationType = "city"
    /\ cityName = EmptyStr
    /\ selectedCountry = EmptyStr
    /\ showSuggestion = TRUE
    /\ error = Null
    /\ emitted = NotCalled
    /\ clock = 1
    /\ lastOp = [op |-> "mount", outcome |-> "form", before |-> NotCalled]

\* the first render: the slides memo is computed
Compile ==
    /\ slides = <<>>
    /\ slides' = compileSlides(destinations)
    /\ UNCHANGED <<destinations, currentSlideIndex, isAnimating, progress, pendingStep,
                   laterSteps, settleTicks, exportsPending, hist>>
    /\ UNCHANGED taggerVars

NextCompile == Compile

SpecCompile == InitCompile /\ [][NextCompile]_vars

----------------------------------------------------------------------------
(* Properties *)

Destinations == emitted.destinations

\* the emitted destinations whose images hold image i's preview
Holders(i) ==
    { k \in DOMAIN Destinations :
        \E j \in DOMAIN Destinations[k].images :
            Destinations[k].images[j] = taggedImages[i].preview }

\* the input images behind destination k (a preview is its image's position)
Members(k) == { Destinations[k].images[j] : j \in DOMAIN Destinations[k].images }

\* the capture timestamps present among destination k's images
CaptureTimes(k) == { taggedImages[i].timestamp : i \in Members(k) } \ {NoTs}

Dated(k) == CaptureTimes(k) # {}

MinOf(S) == CHOOSE x \in S : \A y \in S : x <= y

FirstSeen(k) == MinOf(Members(k))

SameUpToCase(a, b) ==
    /\ a.type = b.type
    /\ toLowerCase(a.country) = toLowerCase(b.country)
    /\ a.type = "city" => toLowerCase(a.name) = toLowerCase(b.name)

SameUpToCaseAndSpace(a, b) ==
    /\ a.type = b.type
    /\ toLowerCase(trim(a.country)) = toLowerCase(trim(b.country))
    /\ a.type = "city" => toLowerCase(trim(a.name)) = toLowerCase(trim(b.name))

\* C1: when the session completes, every image that holds a resolved location
\* in the final tagged-image list, the last one included, contributes to
\* exactly one destination handed to onComplete.
C1_EmittedCoversFinalList ==
    emitted.called =>
        \A i \in DOMAIN taggedImages :
            HasLocation(taggedImages[i]) => Cardinality(Holders(i)) = 1

C4_WhitespaceInsensitiveMerge ==
    emitted.called =>
        \A i \in DOMAIN taggedImages : \A j \in DOMAIN taggedImages :
            ( /\ HasLocation(taggedImages[i])
              /\ HasLocation(taggedImages[j])
              /\ SameUpToCaseAndSpace(taggedImages[i].location, taggedImages[j].location) )
            => /\ Holders(i) = Holders(j)
               /\ Cardinality(Holders(i)) = 1

C6_EarliestIsMinOrAbsent ==
    emitted.called =>
        \A k \in DOMAIN Destinations :
            Destinations[k].earliestTimestamp =
                IF Dated(k) THEN MinOf(CaptureTimes(k)) ELSE NoTs

\* C7: two runs of the aggregation over the same list, at any two times,
\* give the same destinations in the same order with the same field values
\* (the freshly drawn ids left aside).
C7_Deterministic ==
    (lastOp.outcome = "completed" /\ lastOp.before.called) =>
        StripIds(Destinations) = lastOp.before.destinations

\* C2: whenever the current slide index changes, progress is exactly 0 at
\* the moment the new slide becomes current.
C2_ProgressZeroOnSlideChange ==
    [][currentSlideIndex' # currentSlideIndex => progress' = 0]_vars

\* C8: left to the timer, a tick that stays below 100% changes neither the
\* index nor starts an advance; the tick that reaches 100% starts exactly
\* one advance; and that advance moves the index by exactly 1 with progress
\* 0 for the new slide.
C8_TickAdvancesOnceAndResets ==
    [][ /\ hist'.call = "tick" =>
              /\ currentSlideIndex' = currentSlideIndex
              /\ pendingStep' = pendingStep
        /\ hist'.call = "tick100" =>
              /\ currentSlideIndex' = currentSlideIndex
              /\ pendingStep = 0 /\ pendingStep' = 1
        /\ currentSlideIndex' # currentSlideIndex =>
              /\ currentSlideIndex' = currentSlideIndex + 1
              /\ progress' = 0 ]_vars

\* C9: an accepted advance at index i, its settle delay, then a retreat before
\* any other transition: when that retreat settles the index is i again and
\* progress is 0.
C9_RetreatRestoresSlide ==
    (hist.call = "settle" /\ hist.phase = "retSettled") =>
        (currentSlideIndex = hist.from /\ progress = 0)

\* C10: an advance at the last index, a retreat at index 0, and any tap
\* while a transition is in flight leave index, progress and the in-flight
\* flag as they were.
C10_InvalidTransitionsAreNoOps ==
    [][ (hist'.call \in {"advance", "retreat"} /\ ~hist'.valid) =>
            UNCHANGED <<currentSlideIndex, progress, isAnimating, pendingStep>> ]_vars

C10_Witness ==
    /\ hist.call \in {"advance", "retreat"}
    /\ ~hist.valid
    /\ pendingStep # 0
    /\ settleTicks > 0
    /\ progress > 0

\* C11: at most one transition is in flight: no second index update is ever
\* armed beside a pending one; a tap or a tick that arrives while one is
\* pending leaves the index and the pending update alone; and the index
\* changes only when the pending update fires, by exactly its one step.
C11_SingleTransitionInFlight ==
    [][ /\ laterSteps' = <<>>
        /\ (pendingStep # 0 /\ hist'.call \in {"advance", "retreat", "tick", "tick100"}) =>
              UNCHANGED <<currentSlideIndex, pendingStep, laterSteps>>
        /\ hist'.call = "settle" =>
              /\ pendingStep \in {1, -1}
              /\ currentSlideIndex' = currentSlideIndex + pendingStep
        /\ currentSlideIndex' # currentSlideIndex => hist'.call = "settle" ]_vars

C11_Witness ==
    /\ pendingStep = -1
    /\ laterSteps = <<>>
    /\ hist.call = "advance"
    /\ ~hist.valid
    /\ currentSlideIndex < Len(slides) - 1

\* C12: while the current slide is the last of the deck, no timer tick
\* changes the index or the progress, and the index leaves that slide only
\* when a retreat accepted there settles.
C12_TerminalSlideSuspended ==
    [][ (slides # <<>> /\ currentSlideIndex = Len(slides) - 1) =>
            /\ hist'.call \in {"tick", "tick100"} =>
                  UNCHANGED <<currentSlideIndex, progress>>
            /\ currentSlideIndex' # currentSlideIndex =>
                  /\ hist'.call = "settle"
                  /\ pendingStep = -1
                  /\ currentSlideIndex' = currentSlideIndex - 1 ]_vars

C12_Witness ==
    /\ slides # <<>>
    /\ currentSlideIndex = Len(slides) - 1
    /\ currentSlide.type = "stamp-collection"
    /\ hist.call = "settle"
    /\ pendingStep = 0

\* the slide list has been computed (it always holds the intro slide)
Compiled == slides # <<>>

\* positions of the destination slides that show destination d
DestinationSlides(d) ==
    { k \in DOMAIN slides :
        slides[k].type = "destination" /\ slides[k].destination = d }

\* positions of the quarter-intro slides of quarter q
QuarterIntros(q) ==
    { k \in DOMAIN slides : slides[k].type = "quarter-intro" /\ slides[k].quarter = q }

\* slide k belongs to the block opened by the quarter-intro at j
InBlockOf(j, k) ==
    /\ j < k
    /\ \A m \in (j + 1) .. k : slides[m].type = "destination"

Range(seq) == { seq[i] : i \in DOMAIN seq }

\* C13: a destination without earliestTimestamp gets exactly one destination
\* slide, and that slide stands in the block of Q4's quarter-intro, whose
\* bucket holds the destination.
C13_UndatedGoesToQ4 ==
    Compiled =>
        \A i \in DOMAIN destinations :
            destinations[i].earliestTimestamp = NoTs =>
                /\ Cardinality(DestinationSlides(destinations[i])) = 1
                /\ \A k \in DestinationSlides(destinations[i]) :
                      /\ slides[k].quarter = "Q4"
                      /\ \E j \in QuarterIntros("Q4") :
                            /\ InBlockOf(j, k)
                            /\ destinations[i] \in Range(slides[j].destinations)

C13_Witness ==
    /\ Compiled
    /\ \E i \in DOMAIN destinations : \E j \in DOMAIN destinations :
         /\ destinations[i].earliestTimestamp = NoTs
         /\ destinations[j].earliestTimestamp = 20134
         /\ DestinationSlides(destinations[i]) # {}

\* the quarter of a month, 1..12
QuarterOfMonth(month) ==
    IF month <= 3 THEN "Q1"
    ELSE IF month <= 6 THEN "Q2"
    ELSE IF month <= 9 THEN "Q3"
    ELSE "Q4"

\* the quarters whose quarter-intro slide carries destination d in its bucket
BucketsOf(d) ==
    { q \in Range(Quarters) :
        \E j \in QuarterIntros(q) : d \in Range(slides[j].destinations) }

IsBlockSlide(k) == slides[k].type \in {"quarter-intro", "destination"}

IsSummarySlide(k) == slides[k].type \notin {"intro", "quarter-intro", "destination"}

QuarterRank(q) == CHOOSE i \in DOMAIN Quarters : Quarters[i] = q

\* the destinations shown on quarter q's destination slides, in the order of
\* data.destinations
ShownIn(q) ==
    SelectSeq(destinations,
              LAMBDA d : \E k \in DestinationSlides(d) : slides[k].quarter = q)

\* C15: the deck starts with its only intro slide; each quarter-intro carries
\* a non-empty bucket, all and only the destinations shown for its quarter in
\* the order of the input list, and is followed at once by one destination
\* slide per bucket member in bucket order; every destination slide stands
\* in such a block; the quarter-intros come in the order Q1, Q2, Q3, Q4; and
\* every summary slide comes after every slide of a quarter block.
C15_DeckLayout ==
    Compiled =>
        /\ slides[1].type = "intro"
        /\ \A k \in DOMAIN slides : slides[k].type = "intro" => k = 1
        /\ \A j \in DOMAIN slides :
              slides[j].type = "quarter-intro" =>
                 LET bucket == slides[j].destinations
                     last == j + Len(bucket)
                 IN  /\ bucket # <<>>
                     /\ bucket = ShownIn(slides[j].quarter)
                     /\ last <= Len(slides)
                     /\ \A m \in DOMAIN bucket :
                           /\ slides[j + m].type = "destination"
                           /\ slides[j + m].destination = bucket[m]
                           /\ slides[j + m].quarter = slides[j].quarter
                     /\ last < Len(slides) => slides[last + 1].type # "destination"
        /\ \A k \in DOMAIN slides :
              slides[k].type = "destination" =>
                 \E j \in QuarterIntros(slides[k].quarter) : InBlockOf(j, k)
        /\ \A j \in DOMAIN slides : \A k \in DOMAIN slides :
              ( /\ j < k
                /\ slides[j].type = "quarter-intro"
                /\ slides[k].type = "quarter-intro" )
              => QuarterRank(slides[j].quarter) < QuarterRank(slides[k].quarter)
        /\ \A k \in DOMAIN slides : \A m \in DOMAIN slides :
              (IsSummarySlide(k) /\ IsBlockSlide(m)) => m < k

C15_Witness ==
    /\ Compiled
    /\ \E j \in QuarterIntros("Q1") : Len(slides[j].destinations) = 2
    /\ QuarterIntros("Q3") # {}

\* C16: the deck holds one quarter-intro for each quarter that has a
\* destination and none for a quarter that has none, and one destination
\* slide for each destination of the input list and no other.
C16_OneSlidePerQuarterAndDestination ==
    Compiled =>
        /\ \A q \in Range(Quarters) :
              Cardinality(QuarterIntros(q)) = IF ShownIn(q) # <<>> THEN 1 ELSE 0
        /\ \A i \in DOMAIN destinations :
              Cardinality(DestinationSlides(destinations[i])) = 1
        /\ Cardinality({ k \in DOMAIN slides : slides[k].type = "destination" })
              = Len(destinations)
        /\ \A k \in DOMAIN slides :
              slides[k].type = "destination" =>
                 slides[k].destination \in Range(destinations)

C16_Witness ==
    /\ Compiled
    /\ Len(destinations) >= 2
    /\ QuarterIntros("Q1") = {}
    /\ QuarterIntros("Q2") # {}
    /\ QuarterIntros("Q3") = {}
    /\ QuarterIntros("Q4") # {}

\* the summary slides of a deck, in deck order
SummaryTail(deck) ==
    SelectSeq(deck, LAMBDA slide : slide.type \notin {"intro", "quarter-intro", "destination"})

\* the quarters that have a quarter-intro slide
ShownQuarters == { q \in Range(Quarters) : QuarterIntros(q) # {} }

FormInvalid ==
    \/ selectedCountry = EmptyStr
    \/ locationType = "city" /\ trim(cityName) = EmptyStr

\* C18: saveLocation on an invalid form is rejected, and a rejected
\* saveLocation sets a message and changes nothing else: the tagged-image
\* list, the image index and the form values stay, an unresolved current
\* image stays unresolved and nothing is emitted.
C18_InvalidFormRejected ==
    [][ /\ (lastOp'.op = "saveLocation" /\ FormInvalid) => lastOp'.outcome = "rejected"
        /\ (lastOp'.op = "saveLocation" /\ lastOp'.outcome = "rejected") =>
              /\ FormInvalid
              /\ error' # Null
              /\ ~HasLocation(currentImage) => ~HasLocation(taggedImages'[currentIndex' + 1])
              /\ UNCHANGED <<taggedImages, currentIndex, locationType, cityName,
                             selectedCountry, showSuggestion, emitted>> ]_vars

C18_Witness ==
    /\ lastOp.op = "saveLocation"
    /\ lastOp.outcome = "rejected"
    /\ locationType = "city"
    /\ cityName = <<" ">>
    /\ selectedCountry # EmptyStr
    /\ error = "Please enter city name and select a country"

C20_CommittedLocationWellFormed ==
    \A i \in DOMAIN taggedImages :
        HasLocation(taggedImages[i]) =>
            LET loc == taggedImages[i].location
            IN  /\ loc.type = "country" => loc.name = loc.country
                /\ loc.type = "city" =>
                      /\ loc.name # EmptyStr /\ loc.name # Undefined
                      /\ loc.country # EmptyStr /\ loc.country # Undefined

\* the setTimeout callback an accepted goToNext (1) or goToPrev (-1) arms
Requested(step) ==
    \/ pendingStep' = step /\ laterSteps' = laterSteps
    \/ pendingStep' = pendingStep /\ laterSteps' = Append(laterSteps, step)

\* C21: a tap at x requests a retreat when x is left of a third of the width
\* and an advance otherwise, a tap at exactly a third included; beyond the
\* request it issues (the progress reset and the armed transition of an
\* accepted one) the tap changes neither the index nor the progress.
C21_TapRequestsByThird ==
    [][ hist'.call \in {"advance", "retreat"} =>
            /\ hist'.call = (IF 3 * hist'.x < TapWidth THEN "retreat" ELSE "advance")
            /\ currentSlideIndex' = currentSlideIndex
            /\ LET step == IF hist'.call = "retreat" THEN -1 ELSE 1
                   accepted == IF hist'.call = "retreat" THEN goToPrevAccepts
                               ELSE goToNextAccepts
               IN  IF accepted
                   THEN progress' = 0 /\ isAnimating' /\ Requested(step)
                   ELSE UNCHANGED <<progress, isAnimating, pendingStep, laterSteps>> ]_vars

\* a tap at exactly a third of the width, taken as an advance
C21_Witness ==
    /\ hist.call = "advance"
    /\ 3 * hist.x = TapWidth
    /\ pendingStep = 1
    /\ currentSlideIndex = 0

\* C22: a share leaves the playback state alone, when it starts and when its
\* export succeeds or fails (index, progress, in-flight flag and the armed
\* transition are unchanged), and in every state an export settles from,
\* that is while it was pending, a tap, a tick and a settling transition can
\* happen exactly when they could without it.
C22_ShareLeavesPlayback ==
    [][ exportsPending' # exportsPending =>
            /\ UNCHANGED <<currentSlideIndex, progress, isAnimating, pendingStep,
                           laterSteps, settleTicks>>
            /\ exportsPending > 0 =>
                  /\ ENABLED HandleTap
                  /\ goToNextAccepts => ENABLED (HandleTap /\ pendingStep' = 1)
                  /\ goToPrevAccepts => ENABLED (HandleTap /\ pendingStep' = -1)
                  /\ (TimerArmed /\ (pendingStep # 0 => settleTicks < SettleTicks))
                        => ENABLED Tick
                  /\ pendingStep # 0 => ENABLED Settle ]_vars

\* an export pending on a later slide, a transition in flight
C22_Witness ==
    /\ exportsPending > 0
    /\ isAnimating
    /\ currentSlideIndex > 0
    /\ progress > 0

\* C23: whatever taps, ticks and settling transitions have happened, the
\* slide index is at least 0 and at most the number of slides minus one.
C23_IndexInRange ==
    /\ currentSlideIndex >= 0
    /\ currentSlideIndex <= Len(slides) - 1

\* the last slide, reached by a settling transition
C23_Witness ==
    /\ currentSlideIndex = Len(slides) - 1
    /\ Len(slides) > 1
    /\ hist.call = "settle"

\* C24: with the timer alone driving playback from index 0, and the host
\* running its timers, the story eventually shows its last slide and shows
\* it forever after; every transition in flight settles, and the progress
\* never rests at 100% on a slide that is not the last.
C24_ReachesLastSlideAndStays ==
    /\ <>[](currentSlideIndex = Len(slides) - 1)
    /\ (pendingStep # 0) ~> (pendingStep = 0)
    /\ (progress >= Full(slides) /\ currentSlideIndex < Len(slides) - 1)
          ~> (progress < Full(slides) \/ currentSlideIndex = Len(slides) - 1)

\* the timer alone has brought a story with a destination to its last slide
C24_Witness ==
    /\ Len(slides) > 3
    /\ currentSlideIndex = Len(slides) - 1
    /\ pendingStep = 0
    /\ ~isAnimating
    /\ hist.call = "settle"

\* the interval ticks the setProgress updater takes from the progress p to
\* reach 100% on a slide with the given increment: n applications of
\* TickProgress leave the smaller of p + n * increment and 100%
TicksUntilFull(p, increment, full) ==
    CHOOSE n \in 0 .. (full \div increment) :
        /\ p + n * increment >= full
        /\ n > 0 => p + (n - 1) * increment < full

\* a destination slide whose destination holds n images
DestinationSlideOf(n) ==
    [type |-> "destination", destination |-> StoryDestination(1, n, NoTs), quarter |-> "Q4"]

\* C25: a destination slide dwells 8000 ms for one image plus 4000 ms for
\* each further one, so strictly longer with every image; the intro and the
\* quarter-intro slides dwell a fixed time whatever they show; and a slide
\* of duration D, ticked every 50 ms from the moment it is shown, reaches
\* 100% after D/50 ticks.
C25_DwellTimes ==
    /\ \A n \in 1 .. MaxDestImages + 1 :
          /\ getSlideDuration(DestinationSlideOf(n)) = 8000 + 4000 * (n - 1)
          /\ getSlideDuration(DestinationSlideOf(n + 1)) > getSlideDuration(DestinationSlideOf(n))
    /\ \A i \in DOMAIN slides :
          /\ slides[i].type = "intro" => getSlideDuration(slides[i]) = 10000
          /\ slides[i].type = "quarter-intro" => getSlideDuration(slides[i]) = 14000
    /\ (hist.call \in {"none", "settle"} /\ pendingStep = 0 /\ TimerArmed) =>
          TicksUntilFull(progress, Increment(slides, currentSlide), Full(slides))
             = getSlideDuration(currentSlide) \div 50

\* the identity key of emitted destination k
KeyOfDestination(k) ==
    Key(Location(Destinations[k].type, Destinations[k].name, Destinations[k].country))

\* the input positions of the images that map to a key, in input order
PositionsOfKey(key) ==
    LET positions == [i \in DOMAIN taggedImages |-> i]
        MapsToKey(i) == HasLocation(taggedImages[i]) /\ Key(taggedImages[i].location) = key
    IN  SelectSeq(positions, MapsToKey)

\* C26: type, name and country of every emitted destination are those of the
\* first image of the input that maps to the destination's key, whatever the
\* letter case of the later images of that key.
C26_FirstImageNamesDestination ==
    emitted.called =>
        \A k \in DOMAIN Destinations :
            LET first == taggedImages[Head(PositionsOfKey(KeyOfDestination(k)))].location
            IN  /\ Destinations[k].type = first.type
                /\ Destinations[k].name = first.name
                /\ Destinations[k].country = first.country

\* a destination named by its first image while a later image of the same
\* key spells name or country in another case
C26_Witness ==
    /\ emitted.called
    /\ \E k \in DOMAIN Destinations :
         LET positions == PositionsOfKey(KeyOfDestination(k))
         IN  /\ Len(positions) > 1
             /\ Destinations[k].name = taggedImages[positions[1]].location.name
             /\ \/ taggedImages[positions[2]].location.name # Destinations[k].name
                \/ taggedImages[positions[2]].location.country # Destinations[k].country

\* C27: the images of every emitted destination are the previews of the
\* images that map to its key, in the order of the input list, whatever their
\* capture timestamps and wherever the sort puts the destination.
C27_ImagesInInputOrder ==
    emitted.called =>
        \A k \in DOMAIN Destinations :
            LET positions == PositionsOfKey(KeyOfDestination(k))
            IN  Destinations[k].images =
                    [j \in DOMAIN positions |-> taggedImages[positions[j]].preview]

\* a destination of two images whose second image is the earlier capture
C27_Witness ==
    /\ emitted.called
    /\ \E k \in DOMAIN Destinations :
         /\ Len(Destinations[k].images) = 2
         /\ taggedImages[Destinations[k].images[1]].timestamp = NoTs
         /\ taggedImages[Destinations[k].images[2]].timestamp > 0
         /\ Destinations[k].earliestTimestamp = taggedImages[Destinations[k].images[2]].timestamp

\* C28: the destination at position k of an output of n destinations,
\* positions counted from 1, carries visitOrder k: the values are 1..n.
C28_VisitOrderIsRank ==
    emitted.called =>
        /\ \A k \in DOMAIN Destinations : Destinations[k].visitOrder = k
        /\ { Destinations[k].visitOrder : k \in DOMAIN Destinations } = 1 .. Len(Destinations)

\* two destinations, ranked by the sort against the order of the input
C28_Witness ==
    /\ emitted.called
    /\ Len(Destinations) = 2
    /\ Destinations[1].images[1] > Destinations[2].images[1]
    /\ Destinations[2].visitOrder = 2

\* the times image i's preview occurs among the images of destination k
Occurrences(i, k) ==
    Cardinality({ j \in DOMAIN Destinations[k].images :
                    Destinations[k].images[j] = taggedImages[i].preview })

\* C29: in what the aggregation hands over, the preview of each image with a
\* location occurs in exactly one destination and exactly once there, the
\* preview of an image without a location occurs in none, every destination
\* holds at least one image, and the list is empty exactly when no image has
\* a location.
C29_EachLocatedImageOnce ==
    emitted.called =>
        /\ \A i \in DOMAIN taggedImages :
              IF HasLocation(taggedImages[i])
              THEN /\ Cardinality(Holders(i)) = 1
                   /\ \A k \in Holders(i) : Occurrences(i, k) = 1
              ELSE Holders(i) = {}
        /\ \A k \in DOMAIN Destinations : Len(Destinations[k].images) >= 1
        /\ Destinations = <<>> <=>
              \A i \in DOMAIN taggedImages : ~HasLocation(taggedImages[i])

\* an image without a location beside an image with one
C29_Witness ==
    /\ emitted.called
    /\ Len(Destinations) = 1
    /\ \E i \in DOMAIN taggedImages : ~HasLocation(taggedImages[i])
    /\ \E i \in DOMAIN taggedImages : HasLocation(taggedImages[i])

\* C30: in a tagging session of n images no operation lowers the index of
\* the image shown or takes it out of 0..n-1, and no operation changes or
\* clears a location once confirmSuggestion or saveLocation has committed it.
C30_ForwardOnlyAndFinal ==
    [][ /\ currentIndex' >= currentIndex
        /\ currentIndex' \in 0 .. Len(taggedImages') - 1
        /\ \A i \in DOMAIN taggedImages :
              HasLocation(taggedImages[i]) =>
                  taggedImages'[i].location = taggedImages[i].location ]_vars

====
